---- MODULE Spec2Model ----
(***************************************************************************)
(* People detector: box suppression, identity tracking across frames and   *)
(* the change-gated MQTT publish of src/src/main.rs.                        *)
(*                                                                         *)
(* Numbers.  core::Rect is four i32; every coordinate used here is far     *)
(* below 2^15, so no area overflows.  confidence_percentage is the f32     *)
(* min(area / 1000.0, 100.0); it is kept in thousandths, Min(area, 100000),*)
(* which is injective on the f32 values below 100.  The f32 quotient of     *)
(* line 44 is compared exactly as a fraction: with areas below 2^20 and a   *)
(* threshold that is a multiple of 1/4 the rounding of the quotient cannot  *)
(* move it across the threshold; 0/0 is NaN and compares false.             *)
(***************************************************************************)
EXTENDS Integers, Sequences, FiniteSets, TLC

VARIABLES
    pc,               \* position of the frame loop of main
    boxes,            \* raw detector output of the current frame (line 179)
    threshold,        \* threshold argument of non_maximum_suppression, <<num, den>>
    filtered_boxes,   \* line 192
    new_people_map,   \* line 194
    used_ids,         \* line 195
    has_changed,      \* line 196
    prev_people_map,  \* line 141, the registry behind the mutex
    next_person_id,   \* line 143
    lock_held,        \* the tokio Mutex of line 141 is held by the frame loop
    tasks,            \* publish tasks (line 264) that have not finished, in spawn order
    notice_printed,   \* "No people detected." was printed for the current frame (line 273)
    report_spawned,   \* a publish task was spawned for the current frame (line 264)
    last_frame,       \* <<a frame was processed before, its set of qualifying boxes>>
    old_people_map,   \* the registry as it was when the lock was taken (line 199)
    old_next_id,      \* next_person_id as it was when the lock was taken
    fresh_ids,        \* ids taken from the counter in the current frame, in order
    allocated,        \* the ids taken from the counter since its last reset, in order
    owed_publishes,   \* frames that ended changed with a non-empty new map, minus tasks spawned
    publish_errors    \* some publish task has reported a failure (line 267)

vars == <<pc, boxes, threshold, filtered_boxes, new_people_map, used_ids,
          has_changed, prev_people_map, next_person_id, lock_held, tasks,
          notice_printed, report_spawned, last_frame, old_people_map, old_next_id,
          fresh_ids, allocated, owed_publishes, publish_errors>>

\* the locals of one iteration of the frame loop
frame_vars == <<boxes, filtered_boxes, new_people_map, used_ids, has_changed,
                notice_printed, report_spawned, fresh_ids>>
\* the registry and its counter
registry_vars == <<prev_people_map, next_person_id, allocated>>
\* the snapshot taken with the lock
old_vars == <<old_people_map, old_next_id, last_frame>>

(***************************************************************************)
(* Bounds of the model.                                                    *)
(***************************************************************************)
\* a frame is read only while next_person_id <= MaxId
MaxId == 2
\* a frame is read only while fewer than MaxInFlight publish tasks are unfinished
MaxInFlight == 2
\* the detector returns at most MaxBoxes boxes for a frame
MaxBoxes == 2
\* longest box list handed to non_maximum_suppression on its own
MaxNmsBoxes == 4

(***************************************************************************)
(* Rectangles.                                                             *)
(***************************************************************************)
Rect(x, y, w, h) == [x |-> x, y |-> y, width |-> w, height |-> h]

MinWidth == 60
MinHeight == 120
ConfidenceCap == 100000

Max2(a, b) == IF a >= b THEN a ELSE b
Min2(a, b) == IF a <= b THEN a ELSE b

Area(r) == r.width * r.height

\* opencv Rect & Rect: the common part, or the empty rectangle
Intersect(a, b) ==
    LET x1 == Max2(a.x, b.x)
        y1 == Max2(a.y, b.y)
        w  == Min2(a.x + a.width, b.x + b.width) - x1
        h  == Min2(a.y + a.height, b.y + b.height) - y1
    IN IF w <= 0 \/ h <= 0 THEN Rect(0, 0, 0, 0) ELSE Rect(x1, y1, w, h)

Overlaps(a, b) == Area(Intersect(a, b)) > 0

\* boxes the detector hands to the frame loop
B1 == Rect(0, 0, 100, 200)
B2 == Rect(2, 2, 100, 200)
B3 == Rect(200, 200, 70, 130)
BBig == Rect(0, 0, 300, 400)
BSmall == Rect(0, 0, 50, 50)
DetectorBoxes == {B1, B2, B3, BBig, BSmall}

\* boxes for the suppression function on its own
N1 == Rect(0, 0, 4, 4)
N2 == Rect(1, 0, 4, 4)
N3 == Rect(2, 0, 4, 4)
N4 == Rect(10, 10, 4, 4)
N5 == Rect(0, 0, 0, 0)
NmsBoxes == {N1, N2, N3, N4, N5}
Thresholds == {<<0, 1>>, <<1, 4>>, <<1, 2>>, <<3, 4>>, <<1, 1>>}
MainThreshold == <<1, 2>>

SeqsUpTo(S, n) == UNION {[1..k -> S] : k \in 0..n}

(***************************************************************************)
(* non_maximum_suppression                                                 *)
(***************************************************************************)
\* line 44: intersection.area() as f32 / union as f32 > threshold
IouExceeds(rect1, rect2, tau) ==
    LET inter == Area(Intersect(rect1, rect2))
        union == Area(rect1) + Area(rect2) - inter
    IN IF union = 0 THEN FALSE
       ELSE inter * tau[2] > tau[1] * union

\* lines 33-48: should_keep of box i
ShouldKeepLastOnly(bs, i, tau) ==
    LET others == {j \in 1..Len(bs) : j # i}
    IN others = {} \/
       LET last == CHOOSE j \in others : \A k \in others : k <= j
       IN ~IouExceeds(bs[i], bs[last], tau)

ShouldKeepGreedy(bs, i, tau) ==
    \A j \in 1..(i - 1) : ~IouExceeds(bs[i], bs[j], tau)

ShouldKeepNoSelfSkip(bs, i, tau) ==
    \A j \in 1..Len(bs) : ~IouExceeds(bs[i], bs[j], tau)

ShouldKeep(bs, i, tau) ==
    \A j \in 1..Len(bs) : j = i \/ ~IouExceeds(bs[i], bs[j], tau)

RECURSIVE NmsFrom(_, _, _)
NmsFrom(bs, i, tau) ==
    IF i > Len(bs) THEN <<>>
    ELSE IF ShouldKeep(bs, i, tau)
         THEN <<bs[i]>> \o NmsFrom(bs, i + 1, tau)
         ELSE NmsFrom(bs, i + 1, tau)

non_maximum_suppression(bs, tau) == NmsFrom(bs, 1, tau)

(***************************************************************************)
(* Person and the registry                                                 *)
(***************************************************************************)
Person(id, conf, bbox) == [id |-> id, confidence_percentage |-> conf, bbox |-> bbox]

\* lines 210-211
ConfidencePercentage(rect) == Min2(Area(rect), ConfidenceCap)

\* line 213
QualifiesNoFilter(rect) == TRUE

Qualifies(rect) == rect.width > MinWidth /\ rect.height > MinHeight

\* Person::eq, lines 22-26
PersonEqWithConfidence(p, q) ==
    /\ p.id = q.id
    /\ Area(Intersect(p.bbox, q.bbox)) > 0
    /\ p.confidence_percentage = q.confidence_percentage

PersonEq(p, q) == p.id = q.id /\ Area(Intersect(p.bbox, q.bbox)) > 0

EmptyMap == [k \in {} |-> 0]

MapInsert(m, id, p) == [k \in (DOMAIN m) \cup {id} |-> IF k = id THEN p ELSE m[k]]

\* HashMap == HashMap: same length and every entry found equal in the other
MapEq(a, b) ==
    /\ Cardinality(DOMAIN a) = Cardinality(DOMAIN b)
    /\ \A k \in DOMAIN a : k \in DOMAIN b /\ PersonEq(a[k], b[k])

\* the orders in which a HashMap may be iterated
Orders(S) == {o \in [1..Cardinality(S) -> S] : \A i, j \in DOMAIN o : o[i] = o[j] => i = j}

None == 0

\* lines 215-222: the first entry, in iteration order, whose box overlaps rect
RECURSIVE MatchFrom(_, _, _, _)
MatchFrom(prev, order, k, rect) ==
    IF k > Len(order) THEN None
    ELSE IF Area(Intersect(prev[order[k]].bbox, rect)) > 0 THEN order[k]
         ELSE MatchFrom(prev, order, k + 1, rect)

MatchedIdSameBox(prev, order, rect) ==
    IF \E k \in DOMAIN order : prev[order[k]].bbox = rect
    THEN order[CHOOSE k \in DOMAIN order : prev[order[k]].bbox = rect]
    ELSE None

MatchedIdFirst(prev, order, rect) == IF order = <<>> THEN None ELSE order[1]

MatchedId(prev, order, rect) == MatchFrom(prev, order, 1, rect)

\* lines 225-227
AdvanceNot(n) == n

AdvanceCounter(n) == n + 1

\* lines 208-240: acc is (new_people_map, used_ids, next_person_id, ids taken from the counter)
RECURSIVE TrackLoop(_, _, _, _, _)
TrackLoop(rects, k, prev, order, acc) ==
    IF k > Len(rects) THEN acc
    ELSE LET rect == rects[k]
         IN IF Qualifies(rect)
            THEN LET m   == MatchedId(prev, order, rect)
                     id  == IF m # None THEN m ELSE acc.next
                 IN TrackLoop(rects, k + 1, prev, order,
                        [map   |-> MapInsert(acc.map, id,
                                       Person(id, ConfidencePercentage(rect), rect)),
                         used  |-> Append(acc.used, id),
                         next  |-> IF m # None THEN acc.next ELSE AdvanceCounter(acc.next),
                         fresh |-> IF m # None THEN acc.fresh ELSE Append(acc.fresh, id)])
            ELSE TrackLoop(rects, k + 1, prev, order, acc)

\* line 243
MapsDifferInSize(prev, new) == Cardinality(DOMAIN prev) # Cardinality(DOMAIN new)

MapsDiffer(prev, new) == ~MapEq(prev, new)

\* line 248: *prev_map = new_people_map.clone()
MergeRegistry(prev, new) ==
    [k \in (DOMAIN prev) \cup (DOMAIN new) |-> IF k \in DOMAIN new THEN new[k] ELSE prev[k]]

ReplaceRegistry(prev, new) == new

\* lines 253-254
ShouldPublishAlways(changed, new) == changed

ShouldPublish(changed, new) == changed /\ DOMAIN new # {}

\* line 258, one line of the report; {:.2} of the confidence rounds the thousandths
\* to hundredths (to nearest)
ReportLine(id, person) ==
    <<id, person.id, (person.confidence_percentage + 5) \div 10>>

\* lines 256-260
Message(map, order) == [i \in 1..Len(order) |-> ReportLine(order[i], map[order[i]])]

(***************************************************************************)
(* The frame loop                                                          *)
(***************************************************************************)
Init ==
    /\ pc = "read"
    /\ boxes = <<>>
    /\ threshold = MainThreshold
    /\ filtered_boxes = <<>>
    /\ new_people_map = EmptyMap
    /\ used_ids = <<>>
    /\ has_changed = FALSE
    /\ prev_people_map = EmptyMap
    /\ next_person_id = 1
    /\ lock_held = FALSE
    /\ tasks = <<>>
    /\ notice_printed = FALSE
    /\ report_spawned = FALSE
    /\ last_frame = <<FALSE, {}>>
    /\ old_people_map = EmptyMap
    /\ old_next_id = 1
    /\ fresh_ids = <<>>
    /\ allocated = <<>>
    /\ owed_publishes = 0
    /\ publish_errors = FALSE

\* lines 157-161: the camera hands over an empty frame, the loop sleeps
ReadEmptyFrameFatal ==
    /\ pc = "read"
    /\ pc' = "done"
    /\ UNCHANGED <<threshold, frame_vars, registry_vars, old_vars, lock_held,
                   tasks, owed_publishes, publish_errors>>

ReadEmptyFrame ==
    /\ pc = "read"
    /\ pc' = "sleep"
    /\ UNCHANGED <<threshold, frame_vars, registry_vars, old_vars, lock_held,
                   tasks, owed_publishes, publish_errors>>

\* lines 161-162: the sleep ends, continue
WakeUp ==
    /\ pc = "sleep"
    /\ pc' = "read"
    /\ UNCHANGED <<threshold, frame_vars, registry_vars, old_vars, lock_held,
                   tasks, owed_publishes, publish_errors>>

\* lines 157-196: a frame is read, the detector runs, the boxes are suppressed
ReadFrame ==
    /\ pc = "read"
    /\ next_person_id <= MaxId
    /\ Len(tasks) < MaxInFlight
    /\ \E raw \in SeqsUpTo(DetectorBoxes, MaxBoxes) :
          /\ boxes' = raw
          /\ filtered_boxes' = non_maximum_suppression(raw, threshold)
    /\ new_people_map' = EmptyMap
    /\ used_ids' = <<>>
    /\ has_changed' = FALSE
    /\ notice_printed' = FALSE
    /\ report_spawned' = FALSE
    /\ fresh_ids' = <<>>
    /\ pc' = "lock"
    /\ UNCHANGED <<threshold, registry_vars, old_vars, lock_held, tasks,
                   owed_publishes, publish_errors>>

\* line 199
AcquireLock ==
    /\ pc = "lock"
    /\ ~lock_held
    /\ lock_held' = TRUE
    /\ old_people_map' = prev_people_map
    /\ old_next_id' = next_person_id
    /\ pc' = "track"
    /\ UNCHANGED <<last_frame, threshold, frame_vars, registry_vars, tasks,
                   owed_publishes, publish_errors>>

\* lines 201-206
TrackNoBoxes ==
    /\ pc = "track"
    /\ filtered_boxes = <<>>
    /\ IF DOMAIN prev_people_map # {}
       THEN /\ has_changed' = TRUE
            /\ prev_people_map' = EmptyMap
            /\ next_person_id' = 1
            /\ allocated' = <<>>
       ELSE UNCHANGED <<has_changed, prev_people_map, next_person_id, allocated>>
    /\ pc' = "unlock"
    /\ UNCHANGED <<threshold, boxes, filtered_boxes, new_people_map, used_ids,
                   notice_printed, report_spawned, fresh_ids, old_vars, lock_held, tasks,
                   owed_publishes, publish_errors>>

\* lines 207-249
TrackBoxes ==
    /\ pc = "track"
    /\ filtered_boxes # <<>>
    /\ \E order \in Orders(DOMAIN prev_people_map) :
          LET r == TrackLoop(filtered_boxes, 1, prev_people_map, order,
                       [map |-> EmptyMap, used |-> <<>>, next |-> next_person_id,
                        fresh |-> <<>>])
              changed == MapsDiffer(prev_people_map, r.map)
          IN /\ new_people_map' = r.map
             /\ used_ids' = r.used
             /\ next_person_id' = r.next
             /\ fresh_ids' = r.fresh
             /\ allocated' = allocated \o r.fresh
             /\ has_changed' = changed
             /\ prev_people_map' = ReplaceRegistry(prev_people_map, r.map)
             /\ owed_publishes' = IF changed /\ DOMAIN r.map # {}
                                  THEN owed_publishes + 1 ELSE owed_publishes
    /\ pc' = "unlock"
    /\ UNCHANGED <<threshold, boxes, filtered_boxes, notice_printed, report_spawned, old_vars,
                   lock_held, tasks, publish_errors>>

\* line 250: the guard goes out of scope
ReleaseLockLate ==
    /\ pc = "unlock"
    /\ pc' = "dispatch"
    /\ UNCHANGED <<threshold, frame_vars, registry_vars, old_vars, lock_held, tasks,
                   owed_publishes, publish_errors>>

ReleaseLock ==
    /\ pc = "unlock"
    /\ lock_held' = FALSE
    /\ pc' = "dispatch"
    /\ UNCHANGED <<threshold, frame_vars, registry_vars, old_vars, tasks,
                   owed_publishes, publish_errors>>

\* lines 253-271
DispatchPublishStale ==
    /\ pc = "dispatch"
    /\ ShouldPublish(has_changed, new_people_map)
    /\ \E order \in Orders(DOMAIN old_people_map) :
          tasks' = Append(tasks, [message |-> Message(old_people_map, order)])
    /\ report_spawned' = TRUE
    /\ owed_publishes' = owed_publishes - 1
    /\ pc' = "show"
    /\ UNCHANGED <<threshold, boxes, filtered_boxes, new_people_map, used_ids,
                   has_changed, notice_printed, fresh_ids, registry_vars, old_vars,
                   lock_held, publish_errors>>

\* lines 253-271: the report is built and its publish task spawned
DispatchPublish ==
    /\ pc = "dispatch"
    /\ ShouldPublish(has_changed, new_people_map)
    /\ \E order \in Orders(DOMAIN new_people_map) :
          tasks' = Append(tasks, [message |-> Message(new_people_map, order)])
    /\ report_spawned' = TRUE
    /\ owed_publishes' = owed_publishes - 1
    /\ pc' = "show"
    /\ UNCHANGED <<threshold, boxes, filtered_boxes, new_people_map, used_ids,
                   has_changed, notice_printed, fresh_ids, registry_vars, old_vars,
                   lock_held, publish_errors>>

\* lines 253, 272-274
DispatchNoticeResets ==
    /\ pc = "dispatch"
    /\ ~ShouldPublish(has_changed, new_people_map)
    /\ has_changed
    /\ notice_printed' = TRUE
    /\ next_person_id' = 1
    /\ allocated' = <<>>
    /\ pc' = "show"
    /\ UNCHANGED <<threshold, boxes, filtered_boxes, new_people_map, used_ids,
                   has_changed, report_spawned, fresh_ids, prev_people_map, old_vars,
                   lock_held, tasks, owed_publishes, publish_errors>>

DispatchNotice ==
    /\ pc = "dispatch"
    /\ ~ShouldPublish(has_changed, new_people_map)
    /\ has_changed
    /\ notice_printed' = TRUE
    /\ pc' = "show"
    /\ UNCHANGED <<threshold, boxes, filtered_boxes, new_people_map, used_ids,
                   has_changed, report_spawned, fresh_ids, registry_vars, old_vars, lock_held,
                   tasks, owed_publishes, publish_errors>>

\* line 253 false
DispatchNothing ==
    /\ pc = "dispatch"
    /\ ~ShouldPublish(has_changed, new_people_map)
    /\ ~has_changed
    /\ pc' = "show"
    /\ UNCHANGED <<threshold, frame_vars, registry_vars, old_vars, lock_held,
                   tasks, owed_publishes, publish_errors>>

\* lines 277-307: the frame is shown; no key, or another key than q.  The
\* locals of the iteration go out of scope.
NextIteration ==
    /\ pc = "show"
    /\ pc' = "read"
    /\ boxes' = <<>>
    /\ filtered_boxes' = <<>>
    /\ new_people_map' = EmptyMap
    /\ used_ids' = <<>>
    /\ has_changed' = FALSE
    /\ notice_printed' = FALSE
    /\ report_spawned' = FALSE
    /\ fresh_ids' = <<>>
    /\ old_people_map' = EmptyMap
    /\ old_next_id' = 1
    /\ last_frame' = <<TRUE, {filtered_boxes[i] : i \in {j \in DOMAIN filtered_boxes :
                                                  Qualifies(filtered_boxes[j])}}>>
    /\ UNCHANGED <<threshold, registry_vars, lock_held, tasks, owed_publishes, publish_errors>>

\* lines 305-313: q was pressed
Quit ==
    /\ pc = "show"
    /\ pc' = "done"
    /\ UNCHANGED <<threshold, frame_vars, registry_vars, old_vars, lock_held,
                   tasks, owed_publishes, publish_errors>>

RemoveAt(s, i) == [k \in 1..(Len(s) - 1) |-> IF k < i THEN s[k] ELSE s[k + 1]]

\* lines 264-270: the task of a report calls client.publish once, is told Ok and ends
PublishOk ==
    /\ \E i \in DOMAIN tasks : tasks' = RemoveAt(tasks, i)
    /\ UNCHANGED <<pc, threshold, frame_vars, registry_vars, old_vars, lock_held,
                   owed_publishes, publish_errors>>

\* lines 264-268
PublishErrPropagates ==
    /\ \E i \in DOMAIN tasks : tasks' = RemoveAt(tasks, i)
    /\ publish_errors' = TRUE
    /\ pc' = "done"
    /\ UNCHANGED <<threshold, frame_vars, registry_vars, old_vars, lock_held,
                   owed_publishes>>

\* lines 264-268: the task of a report calls client.publish once, is told Err,
\* reports it on stderr and ends
PublishErr ==
    /\ \E i \in DOMAIN tasks : tasks' = RemoveAt(tasks, i)
    /\ publish_errors' = TRUE
    /\ UNCHANGED <<pc, threshold, frame_vars, registry_vars, old_vars, lock_held,
                   owed_publishes>>

Next ==
    \/ ReadEmptyFrame
    \/ WakeUp
    \/ ReadFrame
    \/ AcquireLock
    \/ TrackNoBoxes
    \/ TrackBoxes
    \/ ReleaseLock
    \/ DispatchPublish
    \/ DispatchNotice
    \/ DispatchNothing
    \/ NextIteration
    \/ Quit
    \/ PublishOk
    \/ PublishErr

Spec == Init /\ [][Next]_vars

(***************************************************************************)
(* non_maximum_suppression on its own: any box list, any threshold         *)
(***************************************************************************)
InitNMS ==
    /\ pc = "nms"
    /\ boxes \in SeqsUpTo(NmsBoxes, MaxNmsBoxes)
    /\ threshold \in Thresholds
    /\ filtered_boxes = <<>>
    /\ new_people_map = EmptyMap
    /\ used_ids = <<>>
    /\ has_changed = FALSE
    /\ prev_people_map = EmptyMap
    /\ next_person_id = 1
    /\ lock_held = FALSE
    /\ tasks = <<>>
    /\ notice_printed = FALSE
    /\ report_spawned = FALSE
    /\ last_frame = <<FALSE, {}>>
    /\ old_people_map = EmptyMap
    /\ old_next_id = 1
    /\ fresh_ids = <<>>
    /\ allocated = <<>>
    /\ owed_publishes = 0
    /\ publish_errors = FALSE

\* line 192 with any arguments
NmsApply ==
    /\ pc = "nms"
    /\ filtered_boxes' = non_maximum_suppression(boxes, threshold)
    /\ pc' = "nms_done"
    /\ UNCHANGED <<boxes, threshold, new_people_map, used_ids, has_changed,
                   notice_printed, report_spawned, fresh_ids, registry_vars, old_vars, lock_held,
                   tasks, owed_publishes, publish_errors>>

\* the output is handed back as the next input
NmsAgain ==
    /\ pc = "nms_done"
    /\ boxes' = filtered_boxes
    /\ filtered_boxes' = <<>>
    /\ pc' = "nms"
    /\ UNCHANGED <<threshold, new_people_map, used_ids, has_changed,
                   notice_printed, report_spawned, fresh_ids, registry_vars, old_vars, lock_held,
                   tasks, owed_publishes, publish_errors>>

NextNMS ==
    \/ NmsApply
    \/ NmsAgain

SpecNMS == InitNMS /\ [][NextNMS]_vars

(***************************************************************************)
(* The tracker and the change gate                                         *)
(***************************************************************************)
\* the tracking step of the current frame is over
Tracked == pc \in {"unlock", "dispatch", "show", "done"}

\* the dispatch step of the current frame is over
Dispatched == pc \in {"show", "done"}

\* the boxes of the current frame that pass the size filter
QualifyingSeq == SelectSeq(filtered_boxes, Qualifies)
QualifyingSet == {QualifyingSeq[i] : i \in DOMAIN QualifyingSeq}

Registry1(id, rect) == [k \in {id} |-> Person(id, ConfidencePercentage(rect), rect)]

\* C1: a frame without qualifying boxes that finds a non-empty registry leaves
\* the registry empty and the counter at 1 and reports changed; a zero-box frame
\* right after a zero-box frame reports unchanged.
C1_ZeroBoxFrameResets ==
    /\ (Tracked /\ QualifyingSet = {} /\ DOMAIN old_people_map # {})
          => (DOMAIN prev_people_map = {} /\ next_person_id = 1 /\ has_changed)
    /\ (Tracked /\ QualifyingSet = {} /\ last_frame = <<TRUE, {}>>)
          => ~has_changed

\* C2: a frame whose qualifying boxes are those of the frame before reports
\* unchanged and spawns no publish task.
C2_RepeatedFrameUnchanged ==
    (Tracked /\ last_frame[1] /\ last_frame[2] = QualifyingSet)
        => (~has_changed /\ ~report_spawned)

\* C3: once a frame is dispatched, a publish task was spawned for it exactly if
\* it reported changed with a non-empty new map, the notice was printed exactly
\* if it reported changed with an empty one, nothing is spawned before the
\* dispatch, and outside the gap between tracking and dispatch the tasks
\* spawned are as many as the frames that were changed and non-empty.
C3_ChangeGatedPublish ==
    /\ Dispatched =>
          /\ report_spawned <=> (has_changed /\ DOMAIN new_people_map # {})
          /\ notice_printed <=> (has_changed /\ DOMAIN new_people_map = {})
    /\ ~Dispatched => (~report_spawned /\ ~notice_printed)
    /\ pc \in {"unlock", "dispatch"} =>
          owed_publishes = (IF has_changed /\ DOMAIN new_people_map # {} THEN 1 ELSE 0)
    /\ pc \notin {"unlock", "dispatch"} => owed_publishes = 0

\* C3 witness: a dispatched frame with its task in flight, after an earlier
\* frame that was changed to empty
C3_Witness ==
    /\ pc = "show"
    /\ report_spawned
    /\ tasks # <<>>
    /\ \E order \in Orders(DOMAIN new_people_map) :
          tasks[Len(tasks)].message = Message(new_people_map, order)

\* C4: from the empty registry with counter 1, the frames (0,0,100,200), then
\* (2,2,100,200), then (200,200,70,130) get the identities 1, 1 and 2; the first
\* and the third spawn one publish task each, the second none.
C4_EndToEnd ==
    /\ (Tracked /\ old_people_map = EmptyMap /\ old_next_id = 1 /\ boxes = <<B1>>)
          => /\ used_ids = <<1>>
             /\ fresh_ids = <<1>>
             /\ has_changed
             /\ prev_people_map = Registry1(1, B1)
             /\ next_person_id = 2
             /\ Dispatched => (report_spawned /\ owed_publishes = 0)
    /\ (Tracked /\ old_people_map = Registry1(1, B1) /\ old_next_id = 2
           /\ last_frame = <<TRUE, {B1}>> /\ boxes = <<B2>>)
          => /\ used_ids = <<1>>
             /\ fresh_ids = <<>>
             /\ ~has_changed
             /\ prev_people_map = Registry1(1, B2)
             /\ next_person_id = 2
             /\ ~report_spawned
             /\ owed_publishes = 0
    /\ (Tracked /\ old_people_map = Registry1(1, B2) /\ old_next_id = 2
           /\ last_frame = <<TRUE, {B2}>> /\ boxes = <<B3>>)
          => /\ used_ids = <<2>>
             /\ fresh_ids = <<2>>
             /\ has_changed
             /\ prev_people_map = Registry1(2, B3)
             /\ Dispatched => (report_spawned /\ owed_publishes = 0)

\* C4 witness: the third frame of the scenario, dispatched
C4_Witness ==
    /\ pc = "show"
    /\ old_people_map = Registry1(1, B2)
    /\ old_next_id = 2
    /\ last_frame = <<TRUE, {B2}>>
    /\ boxes = <<B3>>
    /\ used_ids = <<2>>
    /\ report_spawned

\* the frame has one qualifying box, the registry held one subject, and the two
\* boxes overlap
OneOnOneOverlap ==
    /\ Tracked
    /\ Cardinality(DOMAIN old_people_map) = 1
    /\ Len(QualifyingSeq) = 1
    /\ \A id \in DOMAIN old_people_map : Overlaps(old_people_map[id].bbox, QualifyingSeq[1])

\* C5 as claimed: one subject before, one overlapping qualifying box now: the
\* identity is reused, and the frame reports unchanged only if the confidence
\* is the one the subject had.
C5_UnchangedOnlyIfSameConfidence ==
    OneOnOneOverlap =>
        \A id \in DOMAIN old_people_map :
            /\ used_ids = <<id>>
            /\ ~has_changed =>
                  ConfidencePercentage(QualifyingSeq[1]) =
                      old_people_map[id].confidence_percentage

\* C5 amended: one subject before, one overlapping qualifying box now: the
\* identity is reused and the frame reports unchanged, whatever the confidence.
C5_ReuseUnchanged ==
    OneOnOneOverlap =>
        \A id \in DOMAIN old_people_map :
            /\ used_ids = <<id>>
            /\ DOMAIN new_people_map = {id}
            /\ new_people_map[id].bbox = QualifyingSeq[1]
            /\ ~has_changed

\* C5 witness: the identity is reused with another confidence
C5_Witness ==
    /\ OneOnOneOverlap
    /\ \E id \in DOMAIN old_people_map :
          /\ id \in DOMAIN new_people_map
          /\ new_people_map[id].confidence_percentage #
                 old_people_map[id].confidence_percentage

\* C6: a frame in which the box of a previous subject is overlapped by no
\* qualifying box, or in which a qualifying box overlaps no box of a non-empty
\* previous registry, reports changed.
C6_BrokenOverlapChanged ==
    Tracked =>
        /\ (\E id \in DOMAIN old_people_map :
               \A q \in QualifyingSet : ~Overlaps(old_people_map[id].bbox, q))
              => has_changed
        /\ (DOMAIN old_people_map # {} /\
            \E q \in QualifyingSet :
               \A id \in DOMAIN old_people_map : ~Overlaps(old_people_map[id].bbox, q))
              => has_changed

\* C6 witness: as many subjects as before, one of them moved off its box
C6_Witness ==
    /\ Tracked
    /\ DOMAIN old_people_map # {}
    /\ Cardinality(DOMAIN new_people_map) = Cardinality(DOMAIN old_people_map)
    /\ \E id \in DOMAIN old_people_map :
          \A q \in QualifyingSet : ~Overlaps(old_people_map[id].bbox, q)
    /\ has_changed

\* C9: the ids taken from the counter since its last reset are all >= 1 and
\* each greater than those taken before it; an id of the new map that was not
\* in the registry before the frame was taken from the counter in this frame.
C9_FreshIdsIncrease ==
    /\ \A i \in DOMAIN allocated : allocated[i] >= 1
    /\ \A i, j \in DOMAIN allocated : i < j => allocated[i] < allocated[j]
    /\ Tracked =>
          /\ \A i \in DOMAIN fresh_ids :
                /\ fresh_ids[i] >= old_next_id
                /\ \E j \in DOMAIN allocated : allocated[j] = fresh_ids[i]
          /\ \A id \in DOMAIN new_people_map :
                \/ id \in DOMAIN old_people_map
                \/ \E i \in DOMAIN fresh_ids : fresh_ids[i] = id

\* C9 witness: an id has dropped out of the registry and a later subject got a
\* greater one
C9_Witness ==
    /\ Tracked
    /\ fresh_ids # <<>>
    /\ \E i \in DOMAIN allocated :
          /\ allocated[i] \notin DOMAIN prev_people_map
          /\ allocated[i] < fresh_ids[1]

\* C10: in one frame no two qualifying boxes get the same identity; the new map
\* has as many entries as the frame has qualifying boxes.
C10_OneBoxPerIdentity ==
    Tracked =>
        /\ \A i, j \in DOMAIN used_ids : used_ids[i] = used_ids[j] => i = j
        /\ Cardinality(DOMAIN new_people_map) = Len(QualifyingSeq)

(***************************************************************************)
(* Size filter                                                             *)
(***************************************************************************)
PassesSizeFilter(rect) == rect.width > 60 /\ rect.height > 120

\* the step spawns a publish task
SpawnStep == Len(tasks') = Len(tasks) + 1

\* C11: every subject of the registry has a box wider than 60 and higher than
\* 120, and every line of a report, when its task is spawned, is the line of a
\* subject of the new map whose box passes that filter.
C11_SizeFilter ==
    /\ [](\A id \in DOMAIN prev_people_map : PassesSizeFilter(prev_people_map[id].bbox))
    /\ [][SpawnStep =>
            LET t == tasks'[Len(tasks')]
            IN \A k \in DOMAIN t.message :
                  \E id \in DOMAIN new_people_map :
                     /\ PassesSizeFilter(new_people_map[id].bbox)
                     /\ t.message[k] = <<id, new_people_map[id].id,
                            (new_people_map[id].confidence_percentage + 5) \div 10>>]_vars

\* C11 witness: a frame with an undersized box beside a subject, reported
C11_Witness ==
    /\ pc = "show"
    /\ report_spawned
    /\ DOMAIN prev_people_map # {}
    /\ \E i \in DOMAIN filtered_boxes : ~PassesSizeFilter(filtered_boxes[i])

(***************************************************************************)
(* Box suppression                                                         *)
(***************************************************************************)
\* IoU(a, b) > tau, with IoU = area(a n b) / (area(a) + area(b) - area(a n b));
\* a pair whose union has area 0 does not exceed any threshold
IoUAbove(a, b, tau) ==
    LET i == Area(Intersect(a, b))
        u == Area(a) + Area(b) - i
    IN u > 0 /\ i * tau[2] > tau[1] * u

\* the indices the pairwise rule retains
PairwiseKept(bs, tau) ==
    {i \in 1..Len(bs) : ~\E j \in 1..Len(bs) : j # i /\ IoUAbove(bs[i], bs[j], tau)}

\* out is bs restricted to the indices K, in the order of bs
IsRestriction(out, bs, K) ==
    /\ Len(out) = Cardinality(K)
    /\ \E f \in [1..Len(out) -> K] :
          /\ \A a, b \in 1..Len(out) : a < b => f[a] < f[b]
          /\ \A a \in 1..Len(out) : out[a] = bs[f[a]]

\* C7: the output of non_maximum_suppression is the input restricted, in input
\* order, to the boxes i for which no j # i has IoU(i, j) > threshold; a pair of
\* zero-area boxes does not exceed the threshold.
C7_PairwiseRule ==
    pc = "nms_done" => IsRestriction(filtered_boxes, boxes, PairwiseKept(boxes, threshold))

\* C7 witness: a list with a zero-area pair in which boxes are dropped and kept
C7_Witness ==
    /\ pc = "nms_done"
    /\ 0 < Len(filtered_boxes)
    /\ Len(filtered_boxes) < Len(boxes)
    /\ \E i, j \in 1..Len(boxes) : i # j /\ Area(boxes[i]) = 0 /\ Area(boxes[j]) = 0

\* C8: suppressing the output of a suppression again, with the same threshold,
\* returns that output.
C8_Idempotent ==
    pc = "nms_done" =>
        non_maximum_suppression(filtered_boxes, threshold) = filtered_boxes

\* C8 witness: a suppression that dropped boxes and kept at least two
C8_Witness ==
    /\ pc = "nms_done"
    /\ Len(filtered_boxes) >= 2
    /\ Len(filtered_boxes) < Len(boxes)

(***************************************************************************)
(* Publish tasks and the frame loop                                        *)
(***************************************************************************)
\* the step ends a publish task
TaskEndStep == Len(tasks') = Len(tasks) - 1

\* the frame loop has a step to take at its position
LoopCanStep ==
    /\ pc = "read" => ENABLED ReadEmptyFrame
    /\ (pc = "read" /\ next_person_id <= MaxId /\ Len(tasks) < MaxInFlight) => ENABLED ReadFrame
    /\ pc = "sleep" => ENABLED WakeUp
    /\ pc = "lock" => ENABLED AcquireLock
    /\ pc = "track" => ENABLED (TrackNoBoxes \/ TrackBoxes)
    /\ pc = "unlock" => ENABLED ReleaseLock
    /\ pc = "dispatch" => ENABLED (DispatchPublish \/ DispatchNotice \/ DispatchNothing)
    /\ pc = "show" => ENABLED (NextIteration \/ Quit)

\* C12: a publish task that fails makes its one submission and ends (it is
\* not put back in flight), the step leaves the frame loop where it is and
\* the registry, the counter and the lock as they are, and the frame loop can
\* take its next step whatever publishes have failed or are still in flight.
C12_FailureIsolated ==
    /\ [][(TaskEndStep \/ publish_errors' # publish_errors) =>
            /\ \E i \in DOMAIN tasks : tasks' = RemoveAt(tasks, i)
            /\ pc' = pc
            /\ UNCHANGED <<prev_people_map, next_person_id, lock_held>>]_vars
    /\ []LoopCanStep

\* C12 witness: after a failed publish, with another publish still in flight,
\* a later frame is tracked
C12_Witness ==
    /\ publish_errors
    /\ tasks # <<>>
    /\ pc = "unlock"
    /\ ~has_changed
    /\ DOMAIN prev_people_map # {}

\* C13: the registry lock is held exactly while the frame loop is in its
\* compare-and-replace block, so it is free when the report is dispatched and
\* its task spawned; no publish task holds it, and the frame loop at the
\* entry of the block can take the lock however many publishes are in flight.
C13_LockDiscipline ==
    /\ lock_held <=> pc \in {"track", "unlock"}
    /\ report_spawned => (pc \in {"show", "done"} /\ ~lock_held)
    /\ pc = "lock" => ENABLED AcquireLock

\* C13 witness: the lock is taken for a frame while a publish is in flight
C13_Witness ==
    /\ pc = "track"
    /\ lock_held
    /\ tasks # <<>>

\* C14: every step that changes the registry or the identity counter is a
\* step of the frame loop inside its locked block (the lock is held before
\* and after it), a step that ends or spawns a publish task changes neither,
\* and whenever the lock is free after a frame's block the registry is the
\* complete new map of that frame.
C14_CounterUnderLock ==
    /\ [][(prev_people_map' # prev_people_map \/ next_person_id' # next_person_id) =>
            /\ lock_held /\ lock_held'
            /\ pc = "track"
            /\ Len(tasks') = Len(tasks)]_vars
    /\ []((pc \in {"dispatch", "show"} /\ ~lock_held) => prev_people_map = new_people_map)

\* C14 witness: inside one locked block the counter has been reset, with a
\* publish in flight
C14_Witness ==
    /\ pc = "unlock"
    /\ lock_held
    /\ old_next_id > 1
    /\ next_person_id = 1
    /\ tasks # <<>>

(***************************************************************************)
(* Empty frames                                                            *)
(***************************************************************************)
\* C15: a frame that reads empty sends the loop to its 1 ms sleep and back to
\* the read, never to tracking or to the end of the program; the two steps of
\* that iteration leave the registry, the counter, the lock and the publishes
\* in flight as they were.
C15_EmptyFrameNoEffect ==
    /\ [][(pc = "read" /\ pc' \notin {"read", "lock"}) =>
            /\ pc' = "sleep"
            /\ UNCHANGED <<prev_people_map, next_person_id, lock_held, tasks,
                           report_spawned, notice_printed, owed_publishes>>]_vars
    /\ [][(pc = "sleep" /\ pc' # "sleep") =>
            /\ pc' = "read"
            /\ UNCHANGED <<prev_people_map, next_person_id, lock_held, tasks,
                           report_spawned, notice_printed, owed_publishes>>]_vars
    /\ [](pc = "sleep" => ENABLED WakeUp)

\* C15 witness: an empty frame while the registry holds a subject and a
\* publish is in flight
C15_Witness ==
    /\ pc = "sleep"
    /\ DOMAIN prev_people_map # {}
    /\ next_person_id > 1
    /\ tasks # <<>>

(***************************************************************************)
(* The registry after a frame                                              *)
(***************************************************************************)
\* the last position of the frame's qualifying boxes that was given identity id
LastUse(id) ==
    CHOOSE k \in DOMAIN used_ids :
        used_ids[k] = id /\ \A j \in DOMAIN used_ids : used_ids[j] = id => j <= k

\* C16: after a frame is tracked the registry is that frame's new map and
\* nothing else: its identities are exactly the identities given to the
\* frame's qualifying boxes, no identity of the previous registry is in it
\* unless a box of this frame was given it, and each subject carries the box
\* and the confidence of the (last) box of this frame that was given its
\* identity.
C16_WholesaleReplacement ==
    Tracked =>
        /\ prev_people_map = new_people_map
        /\ Len(used_ids) = Len(QualifyingSeq)
        /\ DOMAIN prev_people_map = {used_ids[k] : k \in DOMAIN used_ids}
        /\ \A id \in DOMAIN prev_people_map :
              LET rect == QualifyingSeq[LastUse(id)]
              IN prev_people_map[id] =
                    [id |-> id, confidence_percentage |-> ConfidencePercentage(rect),
                     bbox |-> rect]

\* C16 witness: the subject of the previous registry is gone and the registry
\* holds a subject of this frame instead
C16_Witness ==
    /\ Tracked
    /\ DOMAIN prev_people_map # {}
    /\ \E id \in DOMAIN old_people_map : id \notin DOMAIN prev_people_map

\* C17: after a frame with a non-empty suppressed set is tracked, every
\* identity that is in both the previous and the new registry has a new box
\* that overlaps its previous box, and the frame is 'changed' exactly when the
\* set of identities of the new registry differs from that of the previous.
C17_IdentitiesDecide ==
    (Tracked /\ filtered_boxes # <<>>) =>
        /\ \A id \in (DOMAIN old_people_map) \cap (DOMAIN new_people_map) :
              Area(Intersect(old_people_map[id].bbox, new_people_map[id].bbox)) > 0
        /\ has_changed <=> (DOMAIN new_people_map # DOMAIN old_people_map)

\* C17 witness: an identity is kept with another box and another confidence,
\* and the frame is unchanged
C17_Witness ==
    /\ Tracked
    /\ filtered_boxes # <<>>
    /\ ~has_changed
    /\ \E id \in (DOMAIN old_people_map) \cap (DOMAIN new_people_map) :
          /\ old_people_map[id].bbox # new_people_map[id].bbox
          /\ old_people_map[id].confidence_percentage
                # new_people_map[id].confidence_percentage

(***************************************************************************)
(* Report payloads                                                         *)
(***************************************************************************)
\* the lines of a report of the registry map, as a set
LinesOf(map) ==
    {<<id, map[id].id, (map[id].confidence_percentage + 5) \div 10>> : id \in DOMAIN map}

\* C18: the payload of a publish task is, when the task is spawned, one line
\* per subject of the new registry of the frame being dispatched; no step
\* changes the payload of a task in flight (a step adds one task, ends one
\* task or leaves the tasks alone); and with two tasks in flight the younger
\* can be delivered first.
C18_PayloadSnapshot ==
    /\ [][SpawnStep =>
            LET t == tasks'[Len(tasks')]
            IN /\ tasks' = Append(tasks, t)
               /\ new_people_map = prev_people_map
               /\ Len(t.message) = Cardinality(DOMAIN new_people_map)
               /\ {t.message[k] : k \in DOMAIN t.message} = LinesOf(new_people_map)]_vars
    /\ [][~SpawnStep =>
            \/ tasks' = tasks
            \/ \E i \in DOMAIN tasks : tasks' = RemoveAt(tasks, i)]_vars
    /\ [](Len(tasks) >= 2 =>
            ENABLED (PublishOk /\ tasks' = RemoveAt(tasks, Len(tasks))))

\* C18 witness: the report of an earlier frame is in flight, unchanged, after
\* a later frame replaced the registry and spawned its own report
C18_Witness ==
    /\ pc = "show"
    /\ report_spawned
    /\ Len(tasks) = 2
    /\ {tasks[1].message[k] : k \in DOMAIN tasks[1].message} # LinesOf(prev_people_map)
    /\ {tasks[2].message[k] : k \in DOMAIN tasks[2].message} = LinesOf(prev_people_map)

(***************************************************************************)
(* Box suppression and input order                                         *)
(***************************************************************************)
\* a total order on boxes, and a list put in that order
RectKey(r) == ((r.x * 64 + r.y) * 64 + r.width) * 64 + r.height

InKeyOrder(s) == SortSeq(s, LAMBDA a, b : RectKey(a) < RectKey(b))

\* C19: the boxes non_maximum_suppression retains, counted with their
\* multiplicity, are those it retains from the same boxes put in key order
\* (every order of a list is an input, so all orders retain the same boxes),
\* and when two boxes at different positions of the input have IoU above the
\* threshold neither is in the output.
C19_OrderIndependent ==
    pc = "nms_done" =>
        /\ InKeyOrder(filtered_boxes) = non_maximum_suppression(InKeyOrder(boxes), threshold)
        /\ \A i, j \in 1..Len(boxes) :
              (i # j /\ IoUAbove(boxes[i], boxes[j], threshold)) =>
                 \A k \in 1..Len(filtered_boxes) :
                    filtered_boxes[k] # boxes[i] /\ filtered_boxes[k] # boxes[j]

\* C19 witness: a list out of key order with a pair above the threshold and a
\* box retained
C19_Witness ==
    /\ pc = "nms_done"
    /\ boxes # InKeyOrder(boxes)
    /\ filtered_boxes # <<>>
    /\ \E i, j \in 1..Len(boxes) : i # j /\ IoUAbove(boxes[i], boxes[j], threshold)

(***************************************************************************)
(* Identities and the counter                                              *)
(***************************************************************************)
\* C20: the counter is at least 1, every key of the registry (and of the new
\* map of the frame) is the identity stored in its subject, and every such
\* identity is at least 1 and below the counter.
C20_IdsBelowCounter ==
    /\ next_person_id >= 1
    /\ \A id \in DOMAIN prev_people_map :
          prev_people_map[id].id = id /\ 1 <= id /\ id < next_person_id
    /\ \A id \in DOMAIN new_people_map :
          new_people_map[id].id = id /\ 1 <= id /\ (Tracked => id < next_person_id)

\* C20 witness: a registry of two subjects, one matched and one fresh
C20_Witness ==
    /\ Tracked
    /\ Cardinality(DOMAIN prev_people_map) = 2
    /\ Len(fresh_ids) = 1
    /\ DOMAIN old_people_map # {}

====
